---- MODULE Spec2Model ----
(***************************************************************************)
(* A model of refactors/direct_imports.py: the classification of the       *)
(* imports of every package entry point (IndirectImportTransformer), the   *)
(* resolution of the imports and attribute accesses of a module against    *)
(* the rewrite table (refine_indirect_references) and the rewriting of a   *)
(* module (RewriteIndirectImportsTransformer).                             *)
(*                                                                         *)
(* Representation.  An identifier is a string.  A dotted string such as    *)
(* "pkg.sub_pkg" is the sequence of its identifiers, <<"pkg", "sub_pkg">>. *)
(* An expression node is the sequence of the values of its Name leaves,    *)
(* left to right: Attribute(Attribute(Name("a"), Name("b")), Name("c")) is *)
(* << <<"a">>, <<"b">>, <<"c">> >>, and the node Name("a.b"), which        *)
(* leave_ImportFrom builds from the string resolve_name returns, is the    *)
(* one leaf << <<"a", "b">> >>.  Two nodes are deep_equals exactly when    *)
(* their leaf sequences are equal; their text is equal exactly when the    *)
(* concatenations of their leaves are equal.                               *)
(***************************************************************************)
EXTENDS Integers, Sequences, FiniteSets, TLC

VARIABLES
    init_src,        \* package -> the statements of its __init__.py (pkg_init_cst)
    pending,         \* the packages packages_to_paths.items() has still to yield
    pkg_name,        \* the package whose entry point is being visited, or NoPkg
    pos,             \* the top-level statement the visit has reached
    sub,             \* the statement reached inside a compound statement, 0 outside
    out,             \* the updated top-level statements so far
    body_out,        \* the updated body of the compound statement being visited
    modified_init,   \* package -> what pkg_init_cst.visit(import_visitor) returned
    rewrites,        \* the shared dict: indirect dotted name -> direct reference node
    raised,          \* the exception that ended the run, or "none"
    last,            \* the last handler call: its handler, package, node and result
    mod_src,         \* the statements of the module being resolved (mod_cst)
    tree,            \* the tree the current pass works on
    pass,            \* 0: not started, 1: first pass, 2: pass over the first's output
    pc,              \* where the pass over the module is
    imports_with_indirects, \* refine_indirect_references' first result
    indirect_references,    \* refine_indirect_references' second result
    rpos,            \* the node of tree RewriteIndirectImportsTransformer has reached
    rsub,            \* the Attribute node reached inside that expression (leaves), 0 outside
    acc,             \* the updated sub-expression built so far
    fixed_module,    \* the updated nodes so far; the whole module once pc = "done"
    pass1_out        \* what the first pass returned

cvars == <<init_src, pending, pkg_name, pos, sub, out, body_out, modified_init,
           raised, last>>
rvars == <<mod_src, tree, pass, pc, imports_with_indirects, indirect_references,
           rpos, rsub, acc, fixed_module, pass1_out>>
vars == <<init_src, pending, pkg_name, pos, sub, out, body_out, modified_init,
          rewrites, raised, last, mod_src, tree, pass, pc, imports_with_indirects,
          indirect_references, rpos, rsub, acc, fixed_module, pass1_out>>

(***************************************************************************)
(* Bounds                                                                  *)
(***************************************************************************)
\* The statements of all entry points of a project, together.
MaxStmts == 2
\* The nodes of the module a pass works on.
MaxNodes == 3

(***************************************************************************)
(* Syntax nodes                                                            *)
(***************************************************************************)
\* The node cst.Name(value); `value` is a dotted string.
Name(value) == << value >>

\* The expression the parser makes of a dotted string: one Name per identifier.
Dotted(atoms) == [i \in 1..Len(atoms) |-> << atoms[i] >>]

\* cst.helpers.get_full_name_for_node: the dotted string of an expression
\* (None, modelled as <<>>, gives None).
RECURSIVE get_full_name_for_node(_)
get_full_name_for_node(node) ==
    IF node = <<>> THEN <<>>
    ELSE Head(node) \o get_full_name_for_node(Tail(node))

\* cst.ImportAlias: name is an expression, asname the Name after `as` or <<>>.
ImportAlias(name, asname) == [name |-> name, asname |-> asname]

\* `import a.b as c, d`.
Import(names) ==
    [type |-> "Import", names |-> names, module |-> <<>>, relative |-> 0,
     body |-> <<>>, text |-> "", expr |-> <<>>, binding |-> ""]

\* `from ..module import a as b, c` with `relative` leading dots.
ImportFrom(relative, module, names) ==
    [type |-> "ImportFrom", names |-> names, module |-> module,
     relative |-> relative, body |-> <<>>, text |-> "", expr |-> <<>>,
     binding |-> ""]

\* A simple statement that is no import, known by its text.
Other(text) ==
    [type |-> "Other", names |-> <<>>, module |-> <<>>, relative |-> 0,
     body |-> <<>>, text |-> text, expr |-> <<>>, binding |-> ""]

\* A compound statement (`def f(): ...`) with the statements of its body.
FunctionDef(text, body) ==
    [type |-> "FunctionDef", names |-> <<>>, module |-> <<>>, relative |-> 0,
     body |-> body, text |-> text, expr |-> <<>>, binding |-> ""]

\* A statement holding the attribute chain `expr` (`print(a.b.c)`).  Its base
\* name is looked up in the module's scope ("module"), or is a name an
\* enclosing function binds itself, such as a parameter ("local").
Expr(expr, binding) ==
    [type |-> "Expr", names |-> <<>>, module |-> <<>>, relative |-> 0,
     body |-> <<>>, text |-> "", expr |-> expr, binding |-> binding]

(***************************************************************************)
(* PythonPackageInfo over the project of the test fixture:                 *)
(*   pkg/__init__.py  pkg/mod1.py  pkg/mod2.py                             *)
(*   pkg/sub_pkg/__init__.py  pkg/sub_pkg/mod3.py                          *)
(***************************************************************************)
Pkg == <<"pkg">>
SubPkg == <<"pkg", "sub_pkg">>
NoPkg == <<>>

\* find_packages(where=pkg_dir.parent)
packages == {Pkg, SubPkg}

\* pkgutil.iter_modules([package_path]): the names of the package's members.
iter_modules(package_name) ==
    IF package_name = Pkg THEN {"mod1", "mod2", "sub_pkg"} ELSE {"mod3"}

\* self.fullnames_to_packages[mod_fullname] = package_name, for every member
\* of every package: the top-level package itself is no key, and no module
\* from outside the project is.
fullnames_to_packages ==
    LET fullnames == UNION {{p \o <<m>> : m \in iter_modules(p)} : p \in packages}
    IN [f \in fullnames |->
           CHOOSE p \in packages : \E m \in iter_modules(p) : f = p \o <<m>>]

(***************************************************************************)
(* The rewrite table                                                       *)
(***************************************************************************)
EmptyDict == [k \in {} |-> <<>>]

\* d[k] = v
Put(d, k, v) == [x \in (DOMAIN d) \cup {k} |-> IF x = k THEN v ELSE d[x]]

(***************************************************************************)
(* IndirectImportTransformer                                               *)
(***************************************************************************)
\* indirect_template with the package left out of the indirect reference, so
\* that the entry points of two packages write the same key.
indirect_template_without_package(pkg_fullname, name) == name

\* parse_template_expression(self.pkg_fullname + ".{name}", name=name)
indirect_template(pkg_fullname, name) == Dotted(pkg_fullname) \o name

\* parse_template_expression("{mod}.{name}", mod=mod, name=name)
direct_template(mod, name) == mod \o name

\* importlib.util.resolve_name("." * level, package): the package `level - 1`
\* levels above `package`; ImportError beyond the top-level package.
resolve_name_raises(level, package) == Len(package) < level
resolve_name(level, package) == SubSeq(package, 1, Len(package) - (level - 1))

\* The names of `names` whose index is not in `idxs`, in their order.
RECURSIVE new_names(_, _, _)
new_names(names, idxs, n) ==
    IF n > Len(names) THEN <<>>
    ELSE (IF n \in idxs THEN <<>> ELSE << names[n] >>)
         \o new_names(names, idxs, n + 1)

\* The loop of leave_Import over original_node.names, from name n on.
\* st = [rewrites, name_idxs_to_remove, raised].
RECURSIVE leave_Import_loop(_, _, _, _)
leave_Import_loop(pkg_fullname, names, n, st) ==
    IF n > Len(names) \/ st.raised # "none" THEN st
    ELSE LET alias == names[n] IN
         IF alias.asname # <<>>
         THEN LET indirect_ref == indirect_template(pkg_fullname, alias.asname)
                  direct_ref == alias.name
                  indirect_ref_name == get_full_name_for_node(indirect_ref)
              IN leave_Import_loop(pkg_fullname, names, n + 1,
                     [st EXCEPT !.rewrites = Put(@, indirect_ref_name, direct_ref),
                                !.name_idxs_to_remove = @ \cup {n}])
         ELSE LET module_fullname == get_full_name_for_node(alias.name) IN
              \* self.pkg_info.fullnames_to_packages[module_fullname]; the
              \* three branches on module_package that follow are all `pass`.
              IF module_fullname \notin DOMAIN fullnames_to_packages
              THEN [st EXCEPT !.raised = "KeyError"]
              ELSE leave_Import_loop(pkg_fullname, names, n + 1, st)

\* IndirectImportTransformer.leave_Import: [rewrites, updated, raised], where
\* updated is << >> for RemoveFromParent() and << node >> otherwise.
Indirect_leave_Import(pkg_fullname, node, rw) ==
    LET st == leave_Import_loop(pkg_fullname, node.names, 1,
                  [rewrites |-> rw, name_idxs_to_remove |-> {}, raised |-> "none"])
        kept == new_names(node.names, st.name_idxs_to_remove, 1)
    IN [rewrites |-> st.rewrites,
        raised |-> st.raised,
        updated |-> IF st.raised # "none" THEN <<>>
                    ELSE IF st.name_idxs_to_remove = {} THEN << node >>
                    ELSE IF kept = <<>> THEN <<>>
                    ELSE << [node EXCEPT !.names = kept] >>]

\* The loop of leave_ImportFrom over original_node.names, from name n on.
RECURSIVE leave_ImportFrom_loop(_, _, _, _, _)
leave_ImportFrom_loop(pkg_fullname, mod_name, names, n, rw) ==
    IF n > Len(names) THEN rw
    ELSE LET alias == names[n]
             indirect_name == IF alias.asname # <<>> THEN alias.asname ELSE alias.name
             direct_name == alias.name
             indirect_ref == indirect_template(pkg_fullname, indirect_name)
             direct_ref == direct_template(mod_name, direct_name)
             indirect_ref_name == get_full_name_for_node(indirect_ref)
         IN leave_ImportFrom_loop(pkg_fullname, mod_name, names, n + 1,
                IF direct_ref = indirect_ref THEN rw
                ELSE Put(rw, indirect_ref_name, direct_ref))

\* IndirectImportTransformer.leave_ImportFrom: the module part as written when
\* there is one (its leading dots are not read), else the package the dots
\* name, as one Name node.
Indirect_leave_ImportFrom(pkg_fullname, node, rw) ==
    IF node.module = <<>> /\ resolve_name_raises(node.relative, pkg_fullname)
    THEN [rewrites |-> rw, raised |-> "ImportError", updated |-> <<>>]
    ELSE LET mod_name == IF node.module # <<>> THEN node.module
                         ELSE Name(resolve_name(node.relative, pkg_fullname))
         IN [rewrites |-> leave_ImportFrom_loop(pkg_fullname, mod_name,
                                                node.names, 1, rw),
             raised |-> "none",
             updated |-> <<>>]

(***************************************************************************)
(* The visit of every entry point: phase 1 of collect_indirect_references  *)
(***************************************************************************)
\* The statements of the fixture's pkg/__init__.py and pkg/sub_pkg/__init__.py.
import_pkg_mod1 == Import(<< ImportAlias(Dotted(<<"pkg", "mod1">>), <<>>) >>)
import_pkg_mod2_as_module2 ==
    Import(<< ImportAlias(Dotted(<<"pkg", "mod2">>), Name(<<"module2">>)) >>)
from_dot_import_mod2 == ImportFrom(1, <<>>, << ImportAlias(Name(<<"mod2">>), <<>>) >>)
from_dot_mod1_import_var1_var2 ==
    ImportFrom(1, Dotted(<<"mod1">>),
               << ImportAlias(Name(<<"var1">>), <<>>),
                  ImportAlias(Name(<<"var2">>), Name(<<"variable2">>)) >>)
from_pkg_mod2_import_var3 ==
    ImportFrom(0, Dotted(<<"pkg", "mod2">>),
               << ImportAlias(Name(<<"var3">>), Name(<<"variable3">>)) >>)
import_pkg_sub_pkg_mod3_as_mod3 ==
    Import(<< ImportAlias(Dotted(<<"pkg", "sub_pkg", "mod3">>), Name(<<"mod3">>)) >>)
var0_assign == Other("var0 = mod3.var4")
from_dotdot_import_mod2 ==
    ImportFrom(2, <<>>, << ImportAlias(Name(<<"mod2">>), <<>>) >>)
from_pkg_import_var1 ==
    ImportFrom(0, Dotted(<<"pkg">>), << ImportAlias(Name(<<"var1">>), <<>>) >>)

\* Further statements an entry point may hold.
import_os == Import(<< ImportAlias(Dotted(<<"os">>), <<>>) >>)
import_pkg == Import(<< ImportAlias(Dotted(<<"pkg">>), <<>>) >>)
import_sub_pkg_and_mod3 ==
    Import(<< ImportAlias(Dotted(<<"pkg", "sub_pkg">>), <<>>),
              ImportAlias(Dotted(<<"pkg", "sub_pkg", "mod3">>), <<>>) >>)
import_mod2_as_module2_and_mod1 ==
    Import(<< ImportAlias(Dotted(<<"pkg", "mod2">>), Name(<<"module2">>)),
              ImportAlias(Dotted(<<"pkg", "mod1">>), <<>>) >>)
import_mod1_as_m1_and_os ==
    Import(<< ImportAlias(Dotted(<<"pkg", "mod1">>), Name(<<"m1">>)),
              ImportAlias(Dotted(<<"os">>), <<>>) >>)
import_pkg_mod2_as_mod2 ==
    Import(<< ImportAlias(Dotted(<<"pkg", "mod2">>), Name(<<"mod2">>)) >>)
def_with_import ==
    FunctionDef("def f():",
                << ImportFrom(0, Dotted(<<"pkg", "mod2">>),
                              << ImportAlias(Name(<<"var3">>), <<>>) >>),
                   Other("return var3") >>)

StmtPool ==
    {import_pkg_mod1, import_pkg_mod2_as_module2, from_dot_import_mod2,
     from_dot_mod1_import_var1_var2, from_pkg_mod2_import_var3,
     import_pkg_sub_pkg_mod3_as_mod3, var0_assign, from_dotdot_import_mod2,
     from_pkg_import_var1, import_os, import_pkg, import_sub_pkg_and_mod3,
     import_mod2_as_module2_and_mod1, import_mod1_as_m1_and_os,
     import_pkg_mod2_as_mod2, def_with_import}

\* The orders in which packages_to_paths.items() may yield the packages.
Orders == {<< Pkg, SubPkg >>, << SubPkg, Pkg >>}

NoCall == [handler |-> "none", pkg |-> NoPkg, node |-> Other(""),
           updated |-> <<>>, raised |-> "none", before |-> EmptyDict]

\* The module state while entry points are visited.
ModuleIdle ==
    /\ mod_src = <<>> /\ tree = <<>> /\ pass = 0 /\ pc = "idle"
    /\ imports_with_indirects = EmptyDict /\ indirect_references = EmptyDict
    /\ rpos = 0 /\ rsub = 0 /\ acc = <<>> /\ fixed_module = <<>>
    /\ pass1_out = <<>>

\* rewrites = {} and the entry points as read; no visit has begun.
Init ==
    /\ \E n1 \in 0..MaxStmts : \E n2 \in 0..(MaxStmts - n1) :
         \E s1 \in [1..n1 -> StmtPool] : \E s2 \in [1..n2 -> StmtPool] :
            init_src = [p \in packages |-> IF p = Pkg THEN s1 ELSE s2]
    /\ pending \in Orders
    /\ pkg_name = NoPkg /\ pos = 0 /\ sub = 0 /\ out = <<>> /\ body_out = <<>>
    /\ modified_init = [p \in packages |-> [returned |-> FALSE, body |-> <<>>]]
    /\ rewrites = EmptyDict
    /\ raised = "none"
    /\ last = NoCall
    /\ ModuleIdle

Visiting == pkg_name # NoPkg /\ raised = "none"
Tree == init_src[pkg_name]

\* The visit is at a statement whose handler is to run next.
AtNode ==
    /\ Visiting
    /\ pos <= Len(Tree)
    /\ sub <= Len(Tree[pos].body)
    /\ sub = 0 \/ Tree[pos].type = "FunctionDef"
CurNode == IF sub = 0 THEN Tree[pos] ELSE Tree[pos].body[sub]

\* The handler's return value takes the node's place in its parent.
Replace(updated) ==
    IF sub = 0
    THEN /\ out' = out \o updated
         /\ pos' = pos + 1
         /\ UNCHANGED <<sub, body_out>>
    ELSE /\ body_out' = body_out \o updated
         /\ sub' = sub + 1
         /\ UNCHANGED <<pos, out>>

\* for pkg_name, pkg_path in pkg_info.packages_to_paths.items():
\*     import_visitor = IndirectImportTransformer(pkg_info, pkg_path, rewrites)
StartVisit ==
    /\ pkg_name = NoPkg /\ raised = "none" /\ pending # <<>>
    /\ pkg_name' = Head(pending)
    /\ pending' = Tail(pending)
    /\ pos' = 1 /\ sub' = 0 /\ out' = <<>> /\ body_out' = <<>>
    /\ UNCHANGED <<init_src, modified_init, rewrites, raised, last>>
    /\ UNCHANGED rvars

\* leave_Import on the Import node the visit has reached.
LeaveImport ==
    /\ AtNode /\ CurNode.type = "Import"
    /\ LET r == Indirect_leave_Import(pkg_name, CurNode, rewrites) IN
       /\ rewrites' = r.rewrites
       /\ raised' = r.raised
       /\ last' = [handler |-> "leave_Import", pkg |-> pkg_name, node |-> CurNode,
                   updated |-> r.updated, raised |-> r.raised, before |-> rewrites]
       /\ IF r.raised = "none" THEN Replace(r.updated)
          ELSE UNCHANGED <<pos, sub, out, body_out>>
    /\ UNCHANGED <<init_src, pending, pkg_name, modified_init>>
    /\ UNCHANGED rvars

\* leave_ImportFrom on the ImportFrom node the visit has reached.
LeaveImportFrom ==
    /\ AtNode /\ CurNode.type = "ImportFrom"
    /\ LET r == Indirect_leave_ImportFrom(pkg_name, CurNode, rewrites) IN
       /\ rewrites' = r.rewrites
       /\ raised' = r.raised
       /\ last' = [handler |-> "leave_ImportFrom", pkg |-> pkg_name, node |-> CurNode,
                   updated |-> r.updated, raised |-> r.raised, before |-> rewrites]
       /\ IF r.raised = "none" THEN Replace(r.updated)
          ELSE UNCHANGED <<pos, sub, out, body_out>>
    /\ UNCHANGED <<init_src, pending, pkg_name, modified_init>>
    /\ UNCHANGED rvars

\* A statement the transformer has no handler for is returned as it is.
LeaveOther ==
    /\ AtNode /\ CurNode.type = "Other"
    /\ Replace(<< CurNode >>)
    /\ UNCHANGED <<init_src, pending, pkg_name, modified_init, rewrites, raised, last>>
    /\ UNCHANGED rvars

\* The visit descends into the body of a compound statement.
VisitFunctionDef ==
    /\ AtNode /\ sub = 0 /\ CurNode.type = "FunctionDef"
    /\ sub' = 1 /\ body_out' = <<>>
    /\ UNCHANGED <<init_src, pending, pkg_name, pos, out, modified_init, rewrites,
                   raised, last>>
    /\ UNCHANGED rvars

\* The compound statement is returned with its updated body.
LeaveFunctionDef ==
    /\ Visiting /\ pos <= Len(Tree)
    /\ Tree[pos].type = "FunctionDef" /\ sub = Len(Tree[pos].body) + 1
    /\ out' = out \o << [Tree[pos] EXCEPT !.body = body_out] >>
    /\ pos' = pos + 1 /\ sub' = 0 /\ body_out' = <<>>
    /\ UNCHANGED <<init_src, pending, pkg_name, modified_init, rewrites, raised, last>>
    /\ UNCHANGED rvars

\* modified_init = pkg_init_cst.visit(import_visitor)
FinishVisit ==
    /\ Visiting /\ pos = Len(Tree) + 1
    /\ modified_init' = [modified_init EXCEPT
                            ![pkg_name] = [returned |-> TRUE, body |-> out]]
    /\ pkg_name' = NoPkg
    /\ pos' = 0 /\ out' = <<>>
    /\ UNCHANGED <<init_src, pending, sub, body_out, rewrites, raised, last>>
    /\ UNCHANGED rvars

Next ==
    \/ StartVisit
    \/ LeaveImport
    \/ LeaveImportFrom
    \/ LeaveOther
    \/ VisitFunctionDef
    \/ LeaveFunctionDef
    \/ FinishVisit

Spec == Init /\ [][Next]_vars

(***************************************************************************)
(* Phase 1 as a function of the entry points and the order of the packages *)
(***************************************************************************)
\* pkg_init_cst.visit(import_visitor) over the statements from n on:
\* st = [rewrites, raised, body], body the updated statements so far.
RECURSIVE visit_body(_, _, _, _)
visit_body(pkg_fullname, stmts, n, st) ==
    IF n > Len(stmts) \/ st.raised # "none" THEN st
    ELSE LET node == stmts[n]
             r == CASE node.type = "Import" ->
                         Indirect_leave_Import(pkg_fullname, node, st.rewrites)
                    [] node.type = "ImportFrom" ->
                         Indirect_leave_ImportFrom(pkg_fullname, node, st.rewrites)
                    [] node.type = "FunctionDef" ->
                         LET b == visit_body(pkg_fullname, node.body, 1,
                                     [rewrites |-> st.rewrites, raised |-> "none",
                                      body |-> <<>>])
                         IN [rewrites |-> b.rewrites, raised |-> b.raised,
                             updated |-> << [node EXCEPT !.body = b.body] >>]
                    [] OTHER ->
                         [rewrites |-> st.rewrites, raised |-> "none",
                          updated |-> << node >>]
         IN visit_body(pkg_fullname, stmts, n + 1,
                [rewrites |-> r.rewrites, raised |-> r.raised,
                 body |-> IF r.raised = "none" THEN st.body \o r.updated
                          ELSE st.body])

\* The loop of collect_indirect_references over the packages, in `order`:
\* st = [rewrites, raised, modified], modified the trees the visits returned.
RECURSIVE classify_packages(_, _, _)
classify_packages(order, src, st) ==
    IF order = <<>> \/ st.raised # "none" THEN st
    ELSE LET p == Head(order)
             v == visit_body(p, src[p], 1,
                      [rewrites |-> st.rewrites, raised |-> "none", body |-> <<>>])
         IN classify_packages(Tail(order), src,
                [rewrites |-> v.rewrites, raised |-> v.raised,
                 modified |-> IF v.raised # "none" THEN st.modified
                              ELSE [st.modified EXCEPT
                                       ![p] = [returned |-> TRUE, body |-> v.body]]])

classify_all(order, src) ==
    classify_packages(order, src,
        [rewrites |-> EmptyDict, raised |-> "none",
         modified |-> [p \in packages |-> [returned |-> FALSE, body |-> <<>>]]])

(***************************************************************************)
(* refine_indirect_references                                              *)
(***************************************************************************)
\* The nonempty prefixes of a dotted string.
Prefixes(atoms) == {SubSeq(atoms, 1, k) : k \in 1..Len(atoms)}

\* The names an import statement binds in its scope (ScopeProvider):
\* the alias, or else the imported name and, for `import a.b`, also `a`.
assigned_names(node) ==
    UNION {IF node.names[n].asname # <<>>
           THEN {get_full_name_for_node(node.names[n].asname)}
           ELSE Prefixes(get_full_name_for_node(node.names[n].name))
           : n \in 1..Len(node.names)}

IsImport(node) == node.type \in {"Import", "ImportFrom"}

\* The assignments of the module scope whose node is an import statement.
import_assignments(t) == {i \in 1..Len(t) : IsImport(t[i])}

\* The number of leaves of the node the access at statement j refers with:
\* the longest prefix of the expression that the module scope binds through
\* an import; 0 when no import binds it, or when the base name is a local one.
ref_len(t, j) ==
    LET bound == UNION {assigned_names(t[i]) : i \in import_assignments(t)}
        ks == {k \in 1..Len(t[j].expr) :
                  get_full_name_for_node(SubSeq(t[j].expr, 1, k)) \in bound}
    IN IF t[j].type # "Expr" \/ t[j].binding # "module" \/ ks = {} THEN 0
       ELSE CHOOSE k \in ks : \A x \in ks : x <= k

\* assignment.references of the import statement at i: the statements whose
\* expression's base refers to a name that statement binds.
references(t, i) ==
    {j \in 1..Len(t) :
        /\ ref_len(t, j) > 0
        /\ get_full_name_for_node(SubSeq(t[j].expr, 1, ref_len(t, j)))
              \in assigned_names(t[i])}

\* module_fullnames of an import statement.
module_fullnames(node) ==
    IF node.type = "Import"
    THEN [n \in 1..Len(node.names) |-> get_full_name_for_node(node.names[n].name)]
    ELSE << get_full_name_for_node(node.module) >>

\* for mod_name in module_fullnames: the last name the table holds decides.
RECURSIVE replacement_loop(_, _, _, _)
replacement_loop(names, n, rw, found) ==
    IF n > Len(names) THEN found
    ELSE replacement_loop(names, n + 1, rw,
             IF names[n] \in DOMAIN rw THEN << rw[names[n]] >> ELSE found)

\* imports_with_indirects: import statement (its place in the tree) -> node.
refine_imports(t, rw) ==
    LET hit(i) == replacement_loop(module_fullnames(t[i]), 1, rw, <<>>)
    IN [i \in {i \in import_assignments(t) : hit(i) # <<>>} |-> hit(i)[1]]

\* ref_parent_nodes without the test that the assignment's node is an import
\* statement: the references of every assignment count, a local one included.
ref_parent_nodes_of_any_assignment(t) ==
    {<< j, 2 >> :
        j \in {j \in 1..Len(t) :
                  /\ t[j].type = "Expr" /\ Len(t[j].expr) >= 2
                  /\ \/ t[j].binding = "local"
                     \/ \E i \in import_assignments(t) : j \in references(t, i)}}

\* The Attribute nodes that are the parent of a reference of an import's
\* assignment: <<statement, leaves of the Attribute>>.
ref_parent_nodes(t) ==
    {<< j, ref_len(t, j) + 1 >> :
        j \in {j \in 1..Len(t) :
                  /\ \E i \in import_assignments(t) : j \in references(t, i)
                  /\ ref_len(t, j) < Len(t[j].expr)}}

\* The dotted name of the Attribute node <<j, k>>.
ref_fullname(t, a) == get_full_name_for_node(SubSeq(t[a[1]].expr, 1, a[2]))

\* indirect_references: Attribute node -> node.
refine_references(t, rw) ==
    [a \in {a \in ref_parent_nodes(t) : ref_fullname(t, a) \in DOMAIN rw}
        |-> rw[ref_fullname(t, a)]]

(***************************************************************************)
(* RewriteIndirectImportsTransformer                                       *)
(***************************************************************************)
\* leave_Import: breakpoint(), then the node as it is.
Rewrite_leave_Import(original_node, updated_node, imports) == updated_node

\* leave_ImportFrom: breakpoint(), then the node as it is.
Rewrite_leave_ImportFrom(original_node, updated_node, imports) == updated_node

\* leave_Attribute: self.indirect_references.get(original_node, updated_node)
Rewrite_leave_Attribute(original_node, updated_node, refs) ==
    IF original_node \in DOMAIN refs THEN refs[original_node] ELSE updated_node

(***************************************************************************)
(* One module through refine_indirect_references and the transformer, and  *)
(* the transformer's output through both again.                            *)
(***************************************************************************)
\* Entry points whose table holds a chain: pkg.mod9 -> pkg.module2 -> pkg.mod2.
from_pkg_import_module2_as_mod9 ==
    ImportFrom(0, Dotted(<<"pkg">>),
               << ImportAlias(Name(<<"module2">>), Name(<<"mod9">>)) >>)

FixtureProject ==
    [p \in packages |->
        IF p = Pkg
        THEN << import_pkg_mod1, import_pkg_mod2_as_module2, from_dot_import_mod2,
                from_dot_mod1_import_var1_var2, from_pkg_mod2_import_var3,
                import_pkg_sub_pkg_mod3_as_mod3, var0_assign >>
        ELSE << import_pkg_mod1, from_dotdot_import_mod2, from_pkg_import_var1 >>]

ChainProject ==
    [p \in packages |->
        IF p = Pkg
        THEN << import_pkg_mod2_as_module2, from_pkg_import_module2_as_mod9,
                from_pkg_mod2_import_var3 >>
        ELSE << from_pkg_import_var1 >>]

Projects == {FixtureProject, ChainProject}

\* The statements of the fixture's modules, and further ones.
m_import_pkg == Import(<< ImportAlias(Dotted(<<"pkg">>), <<>>) >>)
m_from_pkg_import_variable2_var1 ==
    ImportFrom(0, Dotted(<<"pkg">>),
               << ImportAlias(Name(<<"variable2">>), <<>>),
                  ImportAlias(Name(<<"var1">>), <<>>) >>)
m_from_pkg_mod1_import_var1_as_blah1 ==
    ImportFrom(0, Dotted(<<"pkg", "mod1">>),
               << ImportAlias(Name(<<"var1">>), Name(<<"blah1">>)) >>)
m_import_pkg_sub_pkg_as_spkg ==
    Import(<< ImportAlias(Dotted(<<"pkg", "sub_pkg">>), Name(<<"spkg">>)) >>)
m_import_pkg_module2 ==
    Import(<< ImportAlias(Dotted(<<"pkg", "module2">>), <<>>) >>)
m_from_pkg_module2_import_var3 ==
    ImportFrom(0, Dotted(<<"pkg", "module2">>),
               << ImportAlias(Name(<<"var3">>), <<>>) >>)
m_pkg_mod3_var4_lower == Expr(Dotted(<<"pkg", "mod3", "var4", "lower">>), "module")
m_pkg_variable3 == Expr(Dotted(<<"pkg", "variable3">>), "module")
m_pkg_mod9_var3 == Expr(Dotted(<<"pkg", "mod9", "var3">>), "module")
m_spkg_var1 == Expr(Dotted(<<"spkg", "var1">>), "module")
m_local_pkg_variable3 == Expr(Dotted(<<"pkg", "variable3">>), "local")
m_name == Expr(Dotted(<<"pkg">>), "module")

NodePool ==
    {m_import_pkg, m_from_pkg_import_variable2_var1,
     m_from_pkg_mod1_import_var1_as_blah1, m_import_pkg_sub_pkg_as_spkg,
     m_import_pkg_module2, m_from_pkg_module2_import_var3,
     m_pkg_mod3_var4_lower, m_pkg_variable3, m_pkg_mod9_var3, m_spkg_var1,
     m_local_pkg_variable3, m_name}

\* Phase 1 is over: every entry point is classified and the table is built.
\* mod_cst = cst.parse_module(mod_src)
InitRewrite ==
    /\ init_src \in Projects
    /\ \E o \in Orders :
         LET c == classify_all(o, init_src) IN
         /\ rewrites = c.rewrites
         /\ modified_init = c.modified
         /\ raised = c.raised
    /\ pending = <<>> /\ pkg_name = NoPkg /\ pos = 0 /\ sub = 0
    /\ out = <<>> /\ body_out = <<>> /\ last = NoCall
    /\ \E n \in 0..MaxNodes : mod_src \in [1..n -> NodePool]
    /\ tree = mod_src
    /\ pass = 1 /\ pc = "parsed"
    /\ imports_with_indirects = EmptyDict /\ indirect_references = EmptyDict
    /\ rpos = 0 /\ rsub = 0 /\ acc = <<>> /\ fixed_module = <<>>
    /\ pass1_out = <<>>

\* imports_with_indirects, indirect_references =
\*     refine_indirect_references(wrapper, rewrites)
Refine ==
    /\ pc = "parsed"
    /\ imports_with_indirects' = refine_imports(tree, rewrites)
    /\ indirect_references' = refine_references(tree, rewrites)
    /\ pc' = "refined"
    /\ rpos' = 1 /\ rsub' = 0 /\ acc' = <<>> /\ fixed_module' = <<>>
    /\ UNCHANGED <<mod_src, tree, pass, pass1_out, rewrites>>
    /\ UNCHANGED cvars

AtModuleNode == pc = "refined" /\ rpos <= Len(tree)

RewriteLeaveImport ==
    /\ AtModuleNode /\ tree[rpos].type = "Import"
    /\ fixed_module' = Append(fixed_module,
           Rewrite_leave_Import(tree[rpos], tree[rpos], imports_with_indirects))
    /\ rpos' = rpos + 1
    /\ UNCHANGED <<mod_src, tree, pass, pc, imports_with_indirects,
                   indirect_references, rsub, acc, pass1_out, rewrites>>
    /\ UNCHANGED cvars

RewriteLeaveImportFrom ==
    /\ AtModuleNode /\ tree[rpos].type = "ImportFrom"
    /\ fixed_module' = Append(fixed_module,
           Rewrite_leave_ImportFrom(tree[rpos], tree[rpos], imports_with_indirects))
    /\ rpos' = rpos + 1
    /\ UNCHANGED <<mod_src, tree, pass, pc, imports_with_indirects,
                   indirect_references, rsub, acc, pass1_out, rewrites>>
    /\ UNCHANGED cvars

\* leave_Attribute on the next Attribute node of the expression, innermost
\* first: the node of k leaves, whose value has been visited and updated.
RewriteLeaveAttribute ==
    /\ AtModuleNode /\ tree[rpos].type = "Expr" /\ Len(tree[rpos].expr) >= 2
    /\ LET e == tree[rpos].expr
           k == IF rsub = 0 THEN 2 ELSE rsub
           value == IF rsub = 0 THEN << e[1] >> ELSE acc
           updated_node == Append(value, e[k])
           r == Rewrite_leave_Attribute(<< rpos, k >>, updated_node,
                                        indirect_references)
       IN IF k = Len(e)
          THEN /\ fixed_module' = Append(fixed_module, [tree[rpos] EXCEPT !.expr = r])
               /\ rpos' = rpos + 1 /\ rsub' = 0 /\ acc' = <<>>
          ELSE /\ rsub' = k + 1 /\ acc' = r
               /\ UNCHANGED <<fixed_module, rpos>>
    /\ UNCHANGED <<mod_src, tree, pass, pc, imports_with_indirects,
                   indirect_references, pass1_out, rewrites>>
    /\ UNCHANGED cvars

\* An expression that is a bare Name has no handler and stays as it is.
RewriteLeaveName ==
    /\ AtModuleNode /\ tree[rpos].type = "Expr" /\ Len(tree[rpos].expr) < 2
    /\ fixed_module' = Append(fixed_module, tree[rpos])
    /\ rpos' = rpos + 1
    /\ UNCHANGED <<mod_src, tree, pass, pc, imports_with_indirects,
                   indirect_references, rsub, acc, pass1_out, rewrites>>
    /\ UNCHANGED cvars

\* fixed_module = wrapper.module.visit(RewriteIndirectImportsTransformer(...))
FinishRewrite ==
    /\ pc = "refined" /\ rpos = Len(tree) + 1
    /\ pc' = "done"
    /\ pass1_out' = IF pass = 1 THEN fixed_module ELSE pass1_out
    /\ UNCHANGED <<mod_src, tree, pass, imports_with_indirects,
                   indirect_references, rpos, rsub, acc, fixed_module, rewrites>>
    /\ UNCHANGED cvars

\* The rewrite pass is run again, on what it returned.
SecondPass ==
    /\ pc = "done" /\ pass = 1
    /\ tree' = fixed_module
    /\ pass' = 2 /\ pc' = "parsed"
    /\ UNCHANGED <<mod_src, imports_with_indirects, indirect_references, rpos,
                   rsub, acc, fixed_module, pass1_out, rewrites>>
    /\ UNCHANGED cvars

NextRewrite ==
    \/ Refine
    \/ RewriteLeaveImport
    \/ RewriteLeaveImportFrom
    \/ RewriteLeaveAttribute
    \/ RewriteLeaveName
    \/ FinishRewrite
    \/ SecondPass

SpecRewrite == InitRewrite /\ [][NextRewrite]_vars

(***************************************************************************)
(* collect_indirect_references from its first line to its last, and the    *)
(* body of its second loop on a module.  The header of the second loop     *)
(* iterates the dict filenames_to_modules itself, which yields its keys,   *)
(* and unpacks every key into two names: a key is a Path, which is not     *)
(* iterable, so the header raises TypeError at the first module and the    *)
(* run never enters the body.  The body's calls, refine_indirect_references*)
(* and the visit of RewriteIndirectImportsTransformer, are the steps of    *)
(* SpecRewrite: they start from the table of a finished first loop.        *)
(***************************************************************************)
\* self.filenames_to_modules[mod_filename] = new_modinfo, for every member of
\* every package; a file is known here by the full name of its module.
filenames_to_modules ==
    [f \in DOMAIN fullnames_to_packages |-> [name |-> f, ispkg |-> f \in packages]]

\* What `for mod_path, mod_info in d` gets from the dict d: its keys.
dict_iter(d) == DOMAIN d

\* Unpacking `item` into (mod_path, mod_info): a key of filenames_to_modules
\* is a Path and cannot be unpacked.
unpack_raises(item) == item \in DOMAIN filenames_to_modules

\* The first loop has ended whenever the second begins, wrongly taken to be
\* so whenever no entry point is being visited.
first_loop_exhausted_between_visits == pkg_name = NoPkg /\ raised = "none"

\* The first loop has ended: packages_to_paths.items() is exhausted, the last
\* visit has returned and nothing was raised.
first_loop_exhausted == pending = <<>> /\ pkg_name = NoPkg /\ raised = "none"

\* for mod_path, mod_info in pkg_info.filenames_to_modules:
ModulesLoop ==
    /\ first_loop_exhausted /\ pc = "idle"
    /\ IF \E item \in dict_iter(filenames_to_modules) : unpack_raises(item)
       THEN pc' = "modules" /\ raised' = "TypeError"
       ELSE pc' = "returned" /\ raised' = raised
    /\ UNCHANGED <<init_src, pending, pkg_name, pos, sub, out, body_out,
                   modified_init, rewrites, last>>
    /\ UNCHANGED <<mod_src, tree, pass, imports_with_indirects,
                   indirect_references, rpos, rsub, acc, fixed_module, pass1_out>>

InitCollect == Init \/ InitRewrite

NextCollect ==
    \/ StartVisit
    \/ LeaveImport
    \/ LeaveImportFrom
    \/ LeaveOther
    \/ VisitFunctionDef
    \/ LeaveFunctionDef
    \/ FinishVisit
    \/ ModulesLoop
    \/ Refine
    \/ RewriteLeaveImport
    \/ RewriteLeaveImportFrom
    \/ RewriteLeaveAttribute
    \/ RewriteLeaveName
    \/ FinishRewrite
    \/ SecondPass

SpecCollect == InitCollect /\ [][NextCollect]_vars

(***************************************************************************)
(* Properties of the classification (specification Spec)                   *)
(***************************************************************************)
IsAliased(alias) == alias.asname # <<>>
IsPlain(alias) == alias.asname = <<>>
AliasedNames(node) == {n \in 1..Len(node.names) : IsAliased(node.names[n])}
PlainNames(node) == {n \in 1..Len(node.names) : IsPlain(node.names[n])}

\* The fully-qualified name of the module a from-import names: the module as
\* written when there are no leading dots, else the module below the package
\* the dots name, counted from the current package.
resolved_module(pkg_fullname, node) ==
    IF node.relative = 0 THEN get_full_name_for_node(node.module)
    ELSE resolve_name(node.relative, pkg_fullname)
            \o get_full_name_for_node(node.module)

\* C1: after leave_ImportFrom has classified a from-import of package P, the
\* table maps, for every imported name, P.exposed_name (the alias, else the
\* name) to a reference whose dotted name is resolved_module.original_name,
\* the module resolved against P (a name whose two sides are the same dotted
\* name is the degenerate case and is left out).
C1_FromImportRecordsResolvedRule ==
    (last.handler = "leave_ImportFrom" /\ last.raised = "none") =>
        \A n \in 1..Len(last.node.names) :
            LET alias == last.node.names[n]
                exposed == IF IsAliased(alias) THEN alias.asname ELSE alias.name
                key == last.pkg \o get_full_name_for_node(exposed)
                direct == resolved_module(last.pkg, last.node)
                             \o get_full_name_for_node(alias.name)
            IN direct # key =>
                  /\ key \in DOMAIN rewrites
                  /\ get_full_name_for_node(rewrites[key]) = direct

\* C2: after leave_Import has classified a statement of package P that holds
\* an aliased name, the table maps P.A to M for each of its names `M as A`,
\* the call has returned, and what it returned is the statement with exactly
\* its non-aliased names, in their order, or the removal of the statement
\* when it has none.
C2_AliasedImportRecordedAndRemoved ==
    (last.handler = "leave_Import" /\ AliasedNames(last.node) # {}) =>
        /\ \A n \in AliasedNames(last.node) :
              LET alias == last.node.names[n]
                  key == last.pkg \o get_full_name_for_node(alias.asname)
              IN key \in DOMAIN rewrites /\ rewrites[key] = alias.name
        /\ last.raised = "none"
        /\ last.updated =
              IF PlainNames(last.node) = {} THEN <<>>
              ELSE << [last.node EXCEPT !.names = SelectSeq(last.node.names, IsPlain)] >>

\* What C3 expects of an entry point: no from-import, no aliased name, every
\* other statement as it was.
RECURSIVE expected_init(_, _)
expected_init(stmts, n) ==
    IF n > Len(stmts) THEN <<>>
    ELSE LET node == stmts[n]
             kept == IF node.type = "ImportFrom" THEN <<>>
                     ELSE IF node.type # "Import" THEN << node >>
                     ELSE IF PlainNames(node) = {} THEN <<>>
                     ELSE << [node EXCEPT !.names = SelectSeq(node.names, IsPlain)] >>
         IN kept \o expected_init(stmts, n + 1)

\* C3: the tree the visit of an entry point returns holds no from-import
\* statement and no aliased whole-module import name, and holds every plain
\* whole-module import and every other statement of the entry point,
\* unchanged and in the original order.
C3_EntryPointShrinkage ==
    \A p \in packages :
        modified_init[p].returned =>
            modified_init[p].body = expected_init(init_src[p], 1)

\* The run over the packages has ended, with every entry point visited.
RunReturned == raised = "none" /\ pending = <<>> /\ pkg_name = NoPkg

\* C8: the outcome of classifying the entry points does not depend on the
\* order of the packages: when the run in one order has returned, the run in
\* every order returns, with the same table (keys and references); when it
\* has raised, the run in every order raises.
C8_TableIndependentOfOrder ==
    /\ RunReturned =>
          \A o \in Orders :
              /\ classify_all(o, init_src).raised = "none"
              /\ classify_all(o, init_src).rewrites = rewrites
    /\ raised # "none" =>
          \A o \in Orders : classify_all(o, init_src).raised # "none"

\* C8's case: both packages have put rules into the table of a finished run.
C8_Witness ==
    /\ RunReturned
    /\ \E k \in DOMAIN rewrites : Len(k) = 2
    /\ \E k \in DOMAIN rewrites : Len(k) = 3

\* C9: classifying a statement of plain whole-module imports only returns
\* without an error, leaves the table as it was and returns the statement
\* unchanged, wherever the imported modules lie.
C9_PlainImportUntouched ==
    (last.handler = "leave_Import" /\ AliasedNames(last.node) = {}) =>
        /\ last.raised = "none"
        /\ rewrites = last.before
        /\ last.updated = << last.node >>

\* C10: no key of the table is the dotted name of the reference it maps to.
C10_NoTrivialSelfLoop ==
    \A k \in DOMAIN rewrites : get_full_name_for_node(rewrites[k]) # k

(***************************************************************************)
(* Properties of the rewrite pass (specification SpecRewrite)              *)
(***************************************************************************)
\* The fully-qualified source names of the names an import statement binds:
\* M for `import M`, M.n for `from M import n`.
source_names(node) ==
    IF node.type = "Import"
    THEN {get_full_name_for_node(node.names[n].name) : n \in 1..Len(node.names)}
    ELSE {get_full_name_for_node(node.module)
             \o get_full_name_for_node(node.names[n].name) : n \in 1..Len(node.names)}

\* C4: in the tree the transformer returns, no import statement of the match
\* set imports_with_indirects is the statement it was.
C4_MatchedImportsReplaced ==
    (pc = "done" /\ pass = 1) =>
        \A i \in DOMAIN imports_with_indirects : fixed_module[i] # tree[i]

\* C5: refine_indirect_references records every import statement that binds
\* a name whose fully-qualified source name is a key of the table, mapped to
\* the table's reference for that name.
C5_ImportsMatchedBySourceName ==
    (pc = "refined" /\ pass = 1) =>
        \A i \in 1..Len(tree) :
            IsImport(tree[i]) =>
                \A name \in source_names(tree[i]) :
                    name \in DOMAIN rewrites =>
                        /\ i \in DOMAIN imports_with_indirects
                        /\ imports_with_indirects[i] = rewrites[name]

\* The base name of the expression at j is bound by an import of the module.
BoundByImport(t, j) ==
    \E i \in 1..Len(t) : IsImport(t[i]) /\ t[j].expr[1] \in assigned_names(t[i])

\* C6 as stated: the Attribute node above every use of a binding, be it an
\* import's or a local one, is recorded with the table's reference when its
\* dotted name is a key of the table.
C6_EveryBindingUseRecorded ==
    (pc = "refined" /\ pass = 1) =>
        \A j \in 1..Len(tree) :
            (/\ tree[j].type = "Expr" /\ Len(tree[j].expr) >= 2
             /\ tree[j].binding = "local" \/ BoundByImport(tree, j)
             /\ get_full_name_for_node(SubSeq(tree[j].expr, 1, 2)) \in DOMAIN rewrites)
            => /\ << j, 2 >> \in DOMAIN indirect_references
               /\ indirect_references[<< j, 2 >>]
                     = rewrites[get_full_name_for_node(SubSeq(tree[j].expr, 1, 2))]

\* C6, amended: the Attribute node above every use of a binding that an
\* import statement of the module introduces is recorded with the table's
\* reference when its dotted name is a key of the table; nothing else is
\* recorded, so an access whose base name is a local binding or is bound by no
\* import is never recorded.
C6_ImportBindingUseRecorded ==
    (pc = "refined" /\ pass = 1) =>
        /\ \A j \in 1..Len(tree) :
              (/\ tree[j].type = "Expr" /\ Len(tree[j].expr) >= 2
               /\ tree[j].binding = "module" /\ BoundByImport(tree, j)
               /\ get_full_name_for_node(SubSeq(tree[j].expr, 1, 2)) \in DOMAIN rewrites)
              => /\ << j, 2 >> \in DOMAIN indirect_references
                 /\ indirect_references[<< j, 2 >>]
                       = rewrites[get_full_name_for_node(SubSeq(tree[j].expr, 1, 2))]
        /\ \A a \in DOMAIN indirect_references :
              /\ tree[a[1]].type = "Expr"
              /\ tree[a[1]].binding = "module"
              /\ BoundByImport(tree, a[1])
              /\ get_full_name_for_node(SubSeq(tree[a[1]].expr, 1, a[2]))
                    \in DOMAIN rewrites

\* C6's case: an access through an import's binding is recorded while an
\* access of the same spelling through a local binding is not.
C6_Witness ==
    /\ pc = "refined" /\ pass = 1
    /\ \E j \in 1..Len(tree), l \in 1..Len(tree) :
          /\ tree[j].type = "Expr" /\ tree[j].binding = "module"
          /\ tree[l].type = "Expr" /\ tree[l].binding = "local"
          /\ tree[l].expr = tree[j].expr
          /\ << j, 2 >> \in DOMAIN indirect_references
          /\ << l, 2 >> \notin DOMAIN indirect_references

\* C7: resolving the output of the first pass matches nothing, and rewriting
\* it returns it unchanged.
C7_SecondPassChangesNothing ==
    /\ (pass = 2 /\ pc \in {"refined", "done"}) =>
          /\ imports_with_indirects = EmptyDict
          /\ indirect_references = EmptyDict
    /\ (pass = 2 /\ pc = "done") => fixed_module = pass1_out

(***************************************************************************)
(* Properties of the whole run (specification SpecCollect)                 *)
(***************************************************************************)
\* The second loop has been reached, or a module is being resolved or
\* rewritten.
PhaseTwo == pc # "idle"

\* Every package's entry point has been visited and the visit has returned.
AllClassified ==
    /\ pending = <<>> /\ pkg_name = NoPkg
    /\ \A p \in packages : modified_init[p].returned

====
